---------------------------- MODULE Spec2Model ----------------------------
(***************************************************************************)
(* Ownership-transfer protocol of mlua-tree-sitter (src/src/lib.rs).       *)
(*                                                                         *)
(* A tree-sitter Tree (a TSTree handle) is created on the host, paired     *)
(* with its source bytes (with_source), moved into a Lua runtime           *)
(* (IntoLua), and read back from it as a tree (FromLua for TreeWithSource) *)
(* or as a node (FromLua for TSNode).  The Lua collector finalizes         *)
(* wrappers that the script no longer references.                          *)
(***************************************************************************)
EXTENDS Integers, Sequences, FiniteSets, TLC

\* ------------------------------------------------------------------ bounds
MaxHandles == 3        \* TSTree handles ever allocated (parse + ts_tree_copy)
MaxWrappers == 2       \* script-side tree wrappers ever created
MaxNodes == 1          \* TSNode values the host holds at once

\* The grammars trees are parsed with, and the host source buffers (bytes).
Languages == {"python", "lua"}
Sources == {<<>>, <<100>>, <<101, 100>>}

VARIABLES
    cname,      \* the C string luaL_requiref reads at "ltreesitter".as_ptr()
    luaAlive,   \* the mlua::Lua instance has not been dropped
    loaded,     \* package.loaded: the module names registered in the runtime
    openCalls,  \* how many times luaopen_ltreesitter ran
    tstree,     \* the TSTree handles allocated so far, by handle
    host,       \* host-side Tree / TreeWithSource values
    hostNodes,  \* host-side TSNode values
    wrappers,   \* script-side tree wrappers (userdata), by index
    result      \* what the last call returned

vars == <<cname, luaAlive, loaded, openCalls, tstree, host, hostNodes,
          wrappers, result>>


\* ------------------------------------------------------- external libraries

\* The names the C side can read at the pointer open_ltreesitter passes: a Rust
\* string literal carries no terminating NUL, so luaL_requiref reads the eleven
\* bytes of "ltreesitter" and then whatever the build placed after them.
CNames == {"ltreesitter", "ltreesitter<bytes that follow the literal>"}

\* Whether create_c_function and the call of the created function succeed: both
\* are followed by `?` in every operation.
Outcomes == {"ok", "create_failed", "call_failed"}

\* Node kinds of the two grammars, by node position (0: root, 1: first child).
KindAt(lang, id) ==
    IF lang = "python"
    THEN (IF id = 0 THEN "module" ELSE "function_definition")
    ELSE (IF id = 0 THEN "chunk" ELSE "function_declaration")

\* A fresh handle as the parser (or ts_tree_copy) returns it.
NewTree(lang) == [lang |-> lang, releases |-> 0, relBy |-> {}, moved |-> FALSE]

\* ts_tree_copy: a new TSTree over the same root.
TsTreeCopy(t) == NewTree(t.lang)

\* ts_tree_delete, by the host's Drop or by the wrapper's finalizer.
Release(ts, h, who) ==
    [ts EXCEPT ![h].releases = @ + 1, ![h].relBy = @ \cup {who}]

Live(h) == h \in DOMAIN tstree /\ tstree[h].releases = 0

\* luaL_requiref(l, name, luaopen_ltreesitter, 0): runs the opener only when
\* package.loaded[name] is not set, then sets it.
RequireF(ld, name) ==
    IF name \in ld THEN [loaded |-> ld, opened |-> 0]
    ELSE [loaded |-> ld \cup {name}, opened |-> 1]

\* usize::into_lua followed by lua_tointeger and `as usize` in load_tree.
UsizeIntoLua(n) == [t |-> "integer", v |-> n]
LuaToInteger(v) == IF v.t = "integer" THEN v.v ELSE 0

\* ------------------------------------------------------ the native module

\* The bytes the ingestion routine copies from (ptr, len).
CopyBytes(mem, n) == [i \in 1..n |-> IF i <= Len(mem) THEN mem[i] ELSE 0]

\* ltreesitter_push_tree: a wrapper holding the handle and a length-prefixed
\* copy of the source.
PushTree(t, len, mem) ==
    [tree |-> t, source |-> [length |-> len, text |-> CopyBytes(mem, len)]]

\* ltreesitter_check_tree_arg / ltreesitter_check_node: the record behind a
\* userdata of the expected kind, a Lua error for anything else.
CheckTreeArg(val) ==
    IF val.t = "tree" THEN [ok |-> TRUE, w |-> val.w] ELSE [ok |-> FALSE]

CheckNode(val) ==
    IF val.t = "node" THEN [ok |-> TRUE, n |-> val.n] ELSE [ok |-> FALSE]

\* ---------------------------------------------------------------- helpers

HostOwns(h) == \E v \in host : v.tree = h

ScriptOwns(h) ==
    \E w \in DOMAIN wrappers : wrappers[w].rec.tree = h /\ ~wrappers[w].finalized

\* The bytes a host slice can read: those of the buffer it points into, or,
\* once that buffer has been released, what the freed memory holds: the old
\* bytes still, or something else.
ReadSrc(ref) ==
    IF ref.k = "host" THEN {ref.bytes}
    ELSE IF ~wrappers[ref.w].finalized
         THEN {SubSeq(wrappers[ref.w].rec.source.text, 1, ref.len)}
         ELSE {SubSeq(wrappers[ref.w].rec.source.text, 1, ref.len),
               [i \in 1..ref.len |-> 0]}

SrcDangling(ref) == ref.k = "wrapper" /\ wrappers[ref.w].finalized

\* tree_sitter::Node::kind: read through the node's tree pointer; of a released
\* tree, what the freed memory holds.
NodeKinds(node) ==
    IF tstree[node.tree].releases = 0
    THEN {KindAt(tstree[node.tree].lang, node.id)}
    ELSE {KindAt(tstree[node.tree].lang, node.id), "<freed memory>"}

\* The wrappers script code can still reach.
Reachable == {w \in DOMAIN wrappers : wrappers[w].rooted /\ ~wrappers[w].finalized}

\* What script code gets from parsed:root() (id 0) or parsed:root():child(0)
\* (id 1): the node record, and the kind node:type() shows the script.
ScriptNode(w, id) ==
    LET node == [tree |-> wrappers[w].rec.tree, id |-> id]
    IN  [w |-> w, node |-> node, seen |-> KindAt(tstree[node.tree].lang, node.id)]

\* The script values the host can hand to from_lua: a plain number, a tree
\* wrapper, a node of a tree.
LuaValues ==
    {[t |-> "number"]}
    \cup {[t |-> "tree", w |-> w] : w \in Reachable}
    \cup {[t |-> "node", n |-> ScriptNode(w, id)] : w \in Reachable, id \in {0, 1}}

NoResult == [op |-> "none"]

Init ==
    /\ cname \in CNames
    /\ luaAlive = TRUE
    /\ loaded = {}
    /\ openCalls = 0
    /\ tstree = <<>>
    /\ host = {}
    /\ hostNodes = {}
    /\ wrappers = <<>>
    /\ result = NoResult


\* ------------------------------------------------------------- operations

\* tree_sitter::Parser::parse on the host: a new host-owned Tree.
Parse(lang) ==
    /\ Len(tstree) < MaxHandles
    /\ tstree' = Append(tstree, NewTree(lang))
    /\ host' = host \cup {[tree |-> Len(tstree) + 1, src |-> [k |-> "none"]]}
    /\ result' = NoResult
    /\ UNCHANGED <<cname, luaAlive, loaded, openCalls, hostNodes, wrappers>>

\* WithSource::with_source: the Tree moves into a TreeWithSource borrowing s.
WithSource(v, s) ==
    /\ v.src.k = "none"
    /\ host' = (host \ {v}) \cup {[tree |-> v.tree, src |-> [k |-> "host", bytes |-> s]]}
    /\ result' = NoResult
    /\ UNCHANGED <<cname, luaAlive, loaded, openCalls, tstree, hostNodes, wrappers>>

\* Module::open_ltreesitter.
OpenLtreesitter(out) ==
    /\ luaAlive
    /\ IF out = "ok"
       THEN LET r == RequireF(loaded, cname)
            IN  /\ loaded' = r.loaded
                /\ openCalls' = openCalls + r.opened
                /\ result' = [op |-> "open", status |-> "ok"]
       ELSE /\ result' = [op |-> "open", status |-> "RuntimeError"]
            /\ UNCHANGED <<loaded, openCalls>>
    /\ UNCHANGED <<cname, luaAlive, tstree, host, hostNodes, wrappers>>

\* A variant of SrcLenArg that hands the length over as a light userdata, the
\* way the two pointers go: lua_tointeger then reads 0.
SrcLenArgAsPointer(bytes) == LuaToInteger([t |-> "lightuserdata", v |-> Len(bytes)])

\* The length into_lua hands to the native module: self.src.len(), through
\* the Lua stack.
SrcLenArg(bytes) == LuaToInteger(UsizeIntoLua(Len(bytes)))

\* IntoLua::into_lua for TreeWithSource.  into_raw gives the handle up before
\* either fallible step; a failure returns the error and nothing else.
IntoLua(v, out) ==
    /\ luaAlive
    /\ v.src.k # "none"
    /\ out = "ok" => Len(wrappers) < MaxWrappers
    /\ \E bytes \in ReadSrc(v.src) :
         LET raw == v.tree
         IN  /\ host' = host \ {v}
             /\ IF out = "ok"
                THEN /\ wrappers' = Append(wrappers,
                            [rec |-> PushTree(raw, SrcLenArg(bytes), bytes),
                             rooted |-> TRUE, finalized |-> FALSE,
                             sent |-> [src |-> bytes, kind |-> KindAt(tstree[raw].lang, 0)]])
                     /\ tstree' = [tstree EXCEPT ![raw].moved = TRUE]
                     /\ result' = [op |-> "into_lua", status |-> "ok", tree |-> raw]
                ELSE /\ result' = [op |-> "into_lua", status |-> "RuntimeError", tree |-> raw]
                     /\ UNCHANGED <<wrappers, tstree>>
    /\ UNCHANGED <<cname, luaAlive, loaded, openCalls, hostNodes>>

\* A variant of GetTree that takes any userdata for a tree wrapper
\* (lua_touserdata in place of the checking accessor).
GetTreeAnyUserdata(val) ==
    IF val.t = "tree" THEN [ok |-> TRUE, w |-> val.w]
    ELSE IF val.t = "node" THEN [ok |-> TRUE, w |-> val.n.w]
    ELSE [ok |-> FALSE]

\* get_tree: the wrapper's record as a light userdata, or the Lua error of
\* ltreesitter_check_tree_arg.
GetTree(val) == CheckTreeArg(val)

\* The slice from_lua builds over the wrapper's own source record.
SliceSrc(w, source) == [k |-> "wrapper", w |-> w, len |-> source.length]

\* A variant of AdoptTree without the copy: Tree::from_raw of the wrapper's own
\* handle.
AdoptTreeNoCopy(ts, h) == [ts |-> ts, tree |-> h]

\* ts_tree_copy, then Tree::from_raw of the copy: the new host-owned handle.
AdoptTree(ts, h) == [ts |-> Append(ts, TsTreeCopy(ts[h])), tree |-> Len(ts) + 1]

\* FromLua::from_lua for TreeWithSource.
FromLuaTree(val, out) ==
    /\ luaAlive
    /\ LET got == GetTree(val)
       IN  IF out = "create_failed"
           THEN /\ result' = [op |-> "from_lua_tree", status |-> "RuntimeError",
                              val |-> val.t, frame |-> FALSE, deref |-> FALSE]
                /\ UNCHANGED <<tstree, host>>
           ELSE IF out = "call_failed" \/ ~got.ok
           THEN /\ result' = [op |-> "from_lua_tree",
                              status |-> IF got.ok THEN "RuntimeError" ELSE "TypeMismatch",
                              val |-> val.t, frame |-> TRUE, deref |-> FALSE]
                /\ UNCHANGED <<tstree, host>>
           ELSE LET rec == wrappers[got.w].rec
                    src == SliceSrc(got.w, rec.source)
                    a   == AdoptTree(tstree, rec.tree)
                IN  /\ Len(tstree) < MaxHandles
                    /\ tstree' = a.ts
                    /\ host' = host \cup {[tree |-> a.tree, src |-> src]}
                    /\ \E bytes \in ReadSrc(src) :
                         result' = [op |-> "from_lua_tree", status |-> "ok",
                                    val |-> val.t, frame |-> TRUE, deref |-> TRUE,
                                    w |-> got.w,
                                    tree |-> a.tree, src |-> bytes]
    /\ UNCHANGED <<cname, luaAlive, loaded, openCalls, hostNodes, wrappers>>

\* get_node: the node record as a light userdata, or the Lua error of
\* ltreesitter_check_node.
GetNode(val) == CheckNode(val)

\* A variant of NodeFromRaw that yields the root of the node's tree.
NodeFromRawRoot(rec) == [rec.node EXCEPT !.id = 0]

\* Node::from_raw of the record's node field.
NodeFromRaw(rec) == rec.node

\* FromLua::from_lua for TSNode.
FromLuaNode(val, out) ==
    /\ luaAlive
    /\ LET got == GetNode(val)
       IN  IF out = "create_failed"
           THEN /\ result' = [op |-> "from_lua_node", status |-> "RuntimeError",
                              val |-> val.t, frame |-> FALSE, deref |-> FALSE]
                /\ UNCHANGED hostNodes
           ELSE IF out = "call_failed" \/ ~got.ok
           THEN /\ result' = [op |-> "from_lua_node",
                              status |-> IF got.ok THEN "RuntimeError" ELSE "TypeMismatch",
                              val |-> val.t, frame |-> TRUE, deref |-> FALSE]
                /\ UNCHANGED hostNodes
           ELSE LET node == NodeFromRaw(got.n)
                IN  /\ Cardinality(hostNodes \cup {node}) <= MaxNodes
                    /\ hostNodes' = hostNodes \cup {node}
                    /\ \E k \in NodeKinds(node) :
                         result' = [op |-> "from_lua_node", status |-> "ok",
                                    val |-> val.t, frame |-> TRUE, deref |-> TRUE,
                                    kind |-> k, seen |-> got.n.seen]
    /\ UNCHANGED <<cname, luaAlive, loaded, openCalls, tstree, host, wrappers>>


\* Drop of a host Tree / TreeWithSource: ts_tree_delete of the handle it owns.
HostDrop(v) ==
    /\ host' = host \ {v}
    /\ tstree' = Release(tstree, v.tree, "host")
    /\ result' = NoResult
    /\ UNCHANGED <<cname, luaAlive, loaded, openCalls, hostNodes, wrappers>>

\* The host reads tws.src (as the tests do with assert_eq!(code, tws.src)).
HostReadSrc(v) ==
    /\ v.src.k # "none"
    /\ \E bytes \in ReadSrc(v.src) :
         result' = [op |-> "read_src", dangling |-> SrcDangling(v.src), src |-> bytes]
    /\ UNCHANGED <<cname, luaAlive, loaded, openCalls, tstree, host, hostNodes,
                   wrappers>>

\* The host reads node.kind() (as the tests do with root.kind()).
HostNodeKind(n) ==
    /\ \E k \in NodeKinds(n) :
         result' = [op |-> "node_kind", dangling |-> ~Live(n.tree), kind |-> k]
    /\ UNCHANGED <<cname, luaAlive, loaded, openCalls, tstree, host, hostNodes,
                   wrappers>>

\* A host Node goes out of scope: it owns nothing.
HostDropNode(n) ==
    /\ hostNodes' = hostNodes \ {n}
    /\ result' = NoResult
    /\ UNCHANGED <<cname, luaAlive, loaded, openCalls, tstree, host, wrappers>>

\* The script (and the host's mlua::Value) lets go of its last reference to a
\* tree wrapper, direct or through a node of the tree.
ScriptUnroot(w) ==
    /\ luaAlive
    /\ wrappers[w].rooted
    /\ wrappers' = [wrappers EXCEPT ![w].rooted = FALSE]
    /\ result' = NoResult
    /\ UNCHANGED <<cname, luaAlive, loaded, openCalls, tstree, host, hostNodes>>

Collectable(w) ==
    /\ ~wrappers[w].rooted
    /\ ~wrappers[w].finalized

\* The collector finalizes an unreachable wrapper: its __gc releases the
\* handle and the copied source.
Collect(w) ==
    /\ luaAlive
    /\ Collectable(w)
    /\ wrappers' = [wrappers EXCEPT ![w].finalized = TRUE]
    /\ tstree' = Release(tstree, wrappers[w].rec.tree, "gc")
    /\ result' = NoResult
    /\ UNCHANGED <<cname, luaAlive, loaded, openCalls, host, hostNodes>>

RECURSIVE ReleaseAll(_, _)
ReleaseAll(ts, ws) ==
    IF ws = {} THEN ts
    ELSE LET w == CHOOSE x \in ws : TRUE
         IN  ReleaseAll(Release(ts, wrappers[w].rec.tree, "gc"), ws \ {w})

\* Drop of the mlua::Lua instance: possible only when no value borrowing from
\* it ('lua) is left on the host; every remaining wrapper is finalized.
LuaClose ==
    /\ luaAlive
    /\ hostNodes = {}
    /\ \A v \in host : v.src.k # "wrapper"
    /\ luaAlive' = FALSE
    /\ tstree' = ReleaseAll(tstree, {w \in DOMAIN wrappers : ~wrappers[w].finalized})
    /\ wrappers' = [w \in DOMAIN wrappers |->
                      [wrappers[w] EXCEPT !.rooted = FALSE, !.finalized = TRUE]]
    /\ loaded' = {}
    /\ result' = NoResult
    /\ UNCHANGED <<cname, openCalls, host, hostNodes>>

Next ==
    \/ \E lang \in Languages : Parse(lang)
    \/ \E v \in host, s \in Sources : WithSource(v, s)
    \/ \E out \in Outcomes : OpenLtreesitter(out)
    \/ \E v \in host, out \in Outcomes : IntoLua(v, out)
    \/ \E val \in LuaValues, out \in Outcomes : FromLuaTree(val, out)
    \/ \E val \in LuaValues, out \in Outcomes : FromLuaNode(val, out)
    \/ \E v \in host : HostDrop(v)
    \/ \E v \in host : HostReadSrc(v)
    \/ \E n \in hostNodes : HostNodeKind(n)
    \/ \E n \in hostNodes : HostDropNode(n)
    \/ \E w \in DOMAIN wrappers : ScriptUnroot(w)
    \/ \E w \in DOMAIN wrappers : Collect(w)
    \/ LuaClose

Spec == Init /\ [][Next]_vars

\* ------------------------------------------------- restrictions of Next
\* The same operations; each specification leaves out what the operations it
\* is about cannot read, so that the rest is explored in full.

InitTree == Init /\ cname = "ltreesitter"

\* The tree protocol: every tree operation and every outcome, on trees of
\* both grammars and one source buffer.
NextTree ==
    \/ \E lang \in Languages : Parse(lang)
    \/ \E v \in host : WithSource(v, <<100>>)
    \/ \E v \in host, out \in Outcomes : IntoLua(v, out)
    \/ \E val \in LuaValues, out \in Outcomes : FromLuaTree(val, out)
    \/ \E v \in host : HostDrop(v)
    \/ \E v \in host : HostReadSrc(v)
    \/ \E w \in DOMAIN wrappers : ScriptUnroot(w)
    \/ \E w \in DOMAIN wrappers : Collect(w)
    \/ LuaClose

SpecTree == InitTree /\ [][NextTree]_vars

\* The round trip: transfers out and back of every tree and every source.
NextRound ==
    \/ \E lang \in Languages : Parse(lang)
    \/ \E v \in host, s \in Sources : WithSource(v, s)
    \/ \E v \in host, out \in Outcomes : IntoLua(v, out)
    \/ \E val \in LuaValues, out \in Outcomes : FromLuaTree(val, out)
    \/ \E v \in host : HostDrop(v)

SpecRound == InitTree /\ [][NextRound]_vars

\* Nodes: node transfer and both from_lua on every kind of value, on trees of
\* one grammar and one source buffer.
NextNode ==
    \/ Parse("python")
    \/ \E v \in host : WithSource(v, <<100>>)
    \/ \E v \in host, out \in Outcomes : IntoLua(v, out)
    \/ \E val \in LuaValues, out \in Outcomes : val.t # "tree" /\ FromLuaTree(val, out)
    \/ \E val \in LuaValues, out \in Outcomes : FromLuaNode(val, out)
    \/ \E v \in host : HostDrop(v)
    \/ \E n \in hostNodes : HostNodeKind(n)
    \/ \E n \in hostNodes : HostDropNode(n)
    \/ \E w \in DOMAIN wrappers : ScriptUnroot(w)
    \/ \E w \in DOMAIN wrappers : Collect(w)
    \/ LuaClose

SpecNode == InitTree /\ [][NextNode]_vars

\* Registration: open_ltreesitter among trees in every ownership state.
NextOpen ==
    \/ \E out \in Outcomes : OpenLtreesitter(out)
    \/ Parse("python")
    \/ \E v \in host : WithSource(v, <<100>>)
    \/ \E v \in host, out \in Outcomes : IntoLua(v, out)
    \/ \E val \in LuaValues : FromLuaTree(val, "ok")
    \/ \E v \in host : HostDrop(v)
    \/ \E w \in DOMAIN wrappers : ScriptUnroot(w)
    \/ \E w \in DOMAIN wrappers : Collect(w)
    \/ LuaClose

SpecOpen == Init /\ [][NextOpen]_vars

\* ------------------------------------------------------------ properties

Transfers == {"into_lua", "from_lua_tree", "from_lua_node"}

Owned == [h \in DOMAIN tstree |-> <<HostOwns(h), ScriptOwns(h)>>]

\* C1: every live ParseTree handle is owned by exactly one of the host and a
\* script-side wrapper, never by both and never by neither.
C1_ExactlyOneOwner ==
    \A h \in DOMAIN tstree : Live(h) => (HostOwns(h) /\ ~ScriptOwns(h)) \/ (~HostOwns(h) /\ ScriptOwns(h))

\* C2: a handle is released at most once: by the host's drop when it was never
\* transferred by into_lua, by the collector when it was.
C2_ReleasedAtMostOnce ==
    \A h \in DOMAIN tstree :
        /\ tstree[h].releases <= 1
        /\ tstree[h].releases = 1 =>
              tstree[h].relBy = (IF tstree[h].moved THEN {"gc"} ELSE {"host"})

C2_Witness ==
    \E h1, h2 \in DOMAIN tstree :
        /\ tstree[h1].moved /\ tstree[h1].releases = 1
        /\ ~tstree[h2].moved /\ tstree[h2].releases = 1
        /\ \E v \in host : v.src.k = "wrapper" /\ wrappers[v.src.w].rec.tree = h1

\* C3: a failed transfer has no effect: after a failed into_lua the handle is
\* owned as before the call (by the host), and a failed inbound transfer
\* changes nothing.
C3_FailedTransferNoEffect ==
    [][(result'.op \in Transfers /\ result'.status # "ok")
          => /\ UNCHANGED <<tstree, wrappers, hostNodes>>
             /\ Owned' = Owned]_vars

\* C4: the tree from_lua returns for a wrapper made by into_lua has the source
\* bytes and the root node kind of the TreeWithSource that was transferred.
C4_RoundTrip ==
    (result.op = "from_lua_tree" /\ result.status = "ok")
        => /\ result.src = wrappers[result.w].sent.src
           /\ KindAt(tstree[result.tree].lang, 0) = wrappers[result.w].sent.kind

C4_Witness ==
    /\ result.op = "from_lua_tree" /\ result.status = "ok"
    /\ result.src = <<101, 100>>
    /\ KindAt(tstree[result.tree].lang, 0) = "chunk"
    /\ \E w \in DOMAIN wrappers : wrappers[w].sent.src # result.src /\ wrappers[w].sent.kind = "module"

\* C5: the node TSNode::from_lua returns reports, on the host, the kind the
\* script saw for that node.
C5_NodeKind ==
    (result.op = "from_lua_node" /\ result.status = "ok") => result.kind = result.seen

C5_Witness ==
    /\ result.op = "from_lua_node" /\ result.status = "ok"
    /\ result.seen = "function_definition"
    /\ \E n \in hostNodes : n.id = 1 /\ ScriptOwns(n.tree)

\* C6: once open_ltreesitter has succeeded, no later call returns an error; a
\* successful call leaves the module registered exactly once, under the name
\* "ltreesitter"; the call changes nothing else.
C6_IdempotentOpen ==
    [][result'.op = "open"
          => /\ loaded # {} => result'.status = "ok"
             /\ result'.status = "ok" => loaded' = {"ltreesitter"} /\ openCalls' = 1
             /\ UNCHANGED <<tstree, host, hostNodes, wrappers>>]_vars

C8_CopyNeverMove ==
    [][/\ (result'.op = "from_lua_tree" /\ result'.status = "ok")
          => \A h \in DOMAIN tstree, new \in 1..(MaxHandles + 1) :
               (h = wrappers[result'.w].rec.tree /\ new = result'.tree)
                  => /\ wrappers' = wrappers
                     /\ tstree'[h] = tstree[h]
                     /\ ScriptOwns(h) /\ ScriptOwns(h)' /\ ~HostOwns(h)'
                     /\ new \notin DOMAIN tstree
                     /\ new # h
                     /\ Live(new)'
                     /\ HostOwns(new)' /\ ~ScriptOwns(new)'
       /\ \A h \in DOMAIN tstree :
            /\ tstree[h].moved => ~HostOwns(h)'
            /\ tstree'[h].releases # tstree[h].releases
                 => \/ HostOwns(h) /\ ~HostOwns(h)'
                    \/ ScriptOwns(h) /\ ~ScriptOwns(h)']_vars

C8_Witness ==
    \E w \in DOMAIN wrappers :
        /\ ~wrappers[w].finalized
        /\ tstree[wrappers[w].rec.tree].releases = 0
        /\ \E v1 \in host :
             /\ v1.src.k = "wrapper" /\ v1.src.w = w
             /\ \E h2 \in DOMAIN tstree :
                  /\ h2 \notin {v1.tree, wrappers[w].rec.tree}
                  /\ tstree[h2].releases = 1 /\ tstree[h2].relBy = {"host"}
                  /\ ~tstree[h2].moved

\* C9: a host TreeWithSource whose src points into a wrapper's copy of the
\* source refers to a wrapper that has not been finalized.
C9_NoDanglingSrc ==
    \A v \in host : v.src.k = "wrapper" => ~wrappers[v.src.w].finalized

\* C10: while the runtime is alive, a host Node refers to a ParseTree that has
\* not been released.
C10_NoDanglingNode ==
    luaAlive => \A n \in hostNodes : Live(n.tree)

=============================================================================
